---------------------------- MODULE Spec2Model ----------------------------
(***************************************************************************)
(* A model of QAMImageGenerator (src/src/qam_image_generator.js): the      *)
(* configuration, the recorded RenderState, the canvas and the calls made  *)
(* on its 2D context, under construction, setOptions and render.           *)
(*                                                                         *)
(* Numbers that the code computes with fractions (step, span, pixel        *)
(* coordinates, the device pixel ratio) are exact rationals <<n, d>> with  *)
(* d > 0 in lowest terms.  The code computes them in IEEE doubles; for the  *)
(* configurations and sequences drawn here every comparison and every      *)
(* Math.ceil of the code has the same outcome in doubles as in exact       *)
(* arithmetic.  Elsewhere a double can differ from the exact value by a    *)
(* unit in the last place, which an inequality that holds with equality    *)
(* in exact arithmetic does not survive.                                   *)
(***************************************************************************)
EXTENDS Integers, Sequences, FiniteSets, TLC

VARIABLES
    options,            \* this.options
    state,              \* this.state = {width, height}
    dpr,                \* this.dpr
    canvas,             \* the canvas: style.width, style.height, width, height
    ctxOps,             \* the calls the latest render made on this.ctx, in order
    devicePixelRatio,   \* global.devicePixelRatio, owned by the host
    input,              \* the sequence the caller holds for its render call
    call,               \* the latest public call: its name and argument
    sized               \* the latest call that wrote this.state, with its inputs

vars == <<options, state, dpr, canvas, ctxOps, devicePixelRatio, input, call, sized>>

-----------------------------------------------------------------------------
(* Bounds of the model. *)

\* longest sequence rendered in the geometry specification
MaxSeqLen == 4

-----------------------------------------------------------------------------
(* Exact rational arithmetic. *)

Abs(n) == IF n < 0 THEN -n ELSE n

RECURSIVE GCD(_, _)
GCD(a, b) == IF b = 0 THEN a ELSE GCD(b, a % b)

\* n/d in lowest terms with a positive denominator (d # 0)
Rat(n, d) ==
    LET g == GCD(Abs(n), Abs(d))
        s == IF d < 0 THEN -1 ELSE 1
    IN  <<(s * n) \div g, (s * d) \div g>>

Q(n) == <<n, 1>>
RAdd(a, b) == Rat(a[1] * b[2] + b[1] * a[2], a[2] * b[2])
RSub(a, b) == Rat(a[1] * b[2] - b[1] * a[2], a[2] * b[2])
RMul(a, b) == Rat(a[1] * b[1], a[2] * b[2])
RDiv(a, b) == Rat(a[1] * b[2], a[2] * b[1])
RLt(a, b) == a[1] * b[2] < b[1] * a[2]
RLe(a, b) == a[1] * b[2] <= b[1] * a[2]
RMax(a, b) == IF RLt(a, b) THEN b ELSE a
\* Math.ceil and Math.floor (\div rounds down)
RCeil(a) == -((-a[1]) \div a[2])
RFloor(a) == a[1] \div a[2]

-----------------------------------------------------------------------------
(* Constants of the code. *)

DefaultN == 4
DefaultPAD == 2
DefaultShift == 1
DefaultLineWidth == 2
DefaultLineColor == "#00e5ff"
DefaultHFixed == 256
DefaultPixelMargin == 24
InitialWidth == 256
\* the shift of position i is ((i+1)/4)*shift
ShiftDivisor == 4
\* the floor 1e-6 of symSpanX
Epsilon == <<1, 1000000>>
Half == <<1, 2>>
BackgroundColor == "#0b0f1a"

Defaults ==
    [N |-> DefaultN, PAD |-> DefaultPAD, shift |-> Q(DefaultShift),
     lineWidth |-> DefaultLineWidth, lineColor |-> DefaultLineColor,
     H_FIXED |-> DefaultHFixed, PIXEL_MARGIN |-> DefaultPixelMargin]

\* Object.assign onto a fresh copy of the defaults instead of the target
ObjectAssignOntoDefaults(target, src) ==
    [f \in (DOMAIN target) \cup (DOMAIN src) |->
        IF f \in DOMAIN src THEN src[f] ELSE Defaults[f]]

\* Object.assign(target, src): src's own fields overlaid on target's
ObjectAssign(target, src) ==
    [f \in (DOMAIN target) \cup (DOMAIN src) |->
        IF f \in DOMAIN src THEN src[f] ELSE target[f]]

-----------------------------------------------------------------------------
(* A sequence argument: undefined, or an array of integers. *)

Undefined == [def |-> FALSE, v |-> <<>>]
Arr(s) == [def |-> TRUE, v |-> s]
\* !seq
Falsy(seq) == ~seq.def

-----------------------------------------------------------------------------
(* The private helpers. *)

\* ToInt32 of `x | 0`; every integer of the model lies in the int32 range,
\* where it leaves the value as it is
ToInt32(x) == x

\* the remainder z % N of JavaScript, which takes the sign of z (N > 0)
JsRem(z, n) == IF z >= 0 THEN z % n ELSE -((-z) % n)

\* _syncDPR: Math.max(1, global.devicePixelRatio || 1); an absent ratio is
\* falsy like 0
SyncDPR(ratio) ==
    LET r == IF ratio[1] = 0 THEN Q(1) ELSE ratio
    IN  RMax(Q(1), r)

\* _rc without the step from the 1-based symbol to the 0-based index
RcNoOffset(n, opts) ==
    LET N == opts.N
        z == ToInt32(n)
    IN  [row |-> z \div N, col |-> JsRem(z, N)]

\* _rc(n)
Rc(n, opts) ==
    LET N == opts.N
        z == ToInt32(n - 1)
    IN  [row |-> z \div N, col |-> JsRem(z, N)]

\* the horizontal position of the element at 0-based position i
XSym(seq, i, opts) ==
    LET col == Rc(seq.v[i + 1], opts).col
        s == RMul(Rat(i + 1, ShiftDivisor), opts.shift)
    IN  RAdd(RAdd(Q(col), Half), s)

\* minX and maxX start at Infinity and -Infinity
PosInf == [inf |-> 1, q |-> Q(0)]
NegInf == [inf |-> -1, q |-> Q(0)]
Fin(q) == [inf |-> 0, q |-> q]
\* x < e and x > e for a finite x
LtExt(x, e) == IF e.inf = 1 THEN TRUE ELSE IF e.inf = -1 THEN FALSE ELSE RLt(x, e.q)
GtExt(x, e) == IF e.inf = -1 THEN TRUE ELSE IF e.inf = 1 THEN FALSE ELSE RLt(e.q, x)

RECURSIVE SpanLoop(_, _, _, _, _)
SpanLoop(seq, i, minX, maxX, opts) ==
    IF i < Len(seq.v)
    THEN LET x == XSym(seq, i, opts)
         IN  SpanLoop(seq, i + 1,
                      IF LtExt(x, minX) THEN Fin(x) ELSE minX,
                      IF GtExt(x, maxX) THEN Fin(x) ELSE maxX,
                      opts)
    ELSE [min |-> minX.q, max |-> maxX.q]

\* _spanX(seq)
SpanX(seq, opts) ==
    IF Falsy(seq) \/ Len(seq.v) = 0
    THEN [min |-> Half, max |-> Half]
    ELSE SpanLoop(seq, 0, PosInf, NegInf, opts)

\* the scale with PAD counted on one side only
StepOnePad(height, opts) ==
    RDiv(Q(height - 2 * opts.PIXEL_MARGIN), Q(opts.N + opts.PAD))

\* the scale in pixels per constellation unit, from a height
Step(height, opts) ==
    RDiv(Q(height - 2 * opts.PIXEL_MARGIN), Q(opts.N + opts.PAD * 2))

\* _chooseCanvasSize with the height of the file's header comment, 256
ChooseCanvasSizeHeight256(seq, opts) ==
    LET step == Step(opts.H_FIXED, opts)
        sp == SpanX(seq, opts)
        symSpanX == RMax(Epsilon, RAdd(RSub(sp.max, sp.min), Q(opts.PAD * 2)))
        W == RAdd(Q(2 * opts.PIXEL_MARGIN), RMul(step, symSpanX))
    IN  [width |-> RCeil(W), height |-> DefaultHFixed]

\* _chooseCanvasSize with PAD taken off the span instead of added to it
ChooseCanvasSizePadSubtracted(seq, opts) ==
    LET H == opts.H_FIXED
        step == Step(H, opts)
        sp == SpanX(seq, opts)
        symSpanX == RMax(Epsilon, RSub(RSub(sp.max, sp.min), Q(opts.PAD * 2)))
        W == RAdd(Q(2 * opts.PIXEL_MARGIN), RMul(step, symSpanX))
    IN  [width |-> RCeil(W), height |-> H]

\* _chooseCanvasSize with PAD added on one side only
ChooseCanvasSizeOnePad(seq, opts) ==
    LET H == opts.H_FIXED
        step == Step(H, opts)
        sp == SpanX(seq, opts)
        symSpanX == RMax(Epsilon, RAdd(RSub(sp.max, sp.min), Q(opts.PAD)))
        W == RAdd(Q(2 * opts.PIXEL_MARGIN), RMul(step, symSpanX))
    IN  [width |-> RCeil(W), height |-> H]

\* _chooseCanvasSize with Math.floor for Math.ceil
ChooseCanvasSizeFloor(seq, opts) ==
    LET H == opts.H_FIXED
        step == Step(H, opts)
        sp == SpanX(seq, opts)
        symSpanX == RMax(Epsilon, RAdd(RSub(sp.max, sp.min), Q(opts.PAD * 2)))
        W == RAdd(Q(2 * opts.PIXEL_MARGIN), RMul(step, symSpanX))
    IN  [width |-> RFloor(W), height |-> H]

\* _chooseCanvasSize(seq): the new this.state
ChooseCanvasSize(seq, opts) ==
    LET H == opts.H_FIXED
        step == Step(H, opts)
        sp == SpanX(seq, opts)
        symSpanX == RMax(Epsilon, RAdd(RSub(sp.max, sp.min), Q(opts.PAD * 2)))
        W == RAdd(Q(2 * opts.PIXEL_MARGIN), RMul(step, symSpanX))
    IN  [width |-> RCeil(W), height |-> H]

\* width + "px"
Px(n) == <<n, "px">>

\* _setupCanvas(): the canvas after the sizes are applied
SetupCanvas(st, ratio) ==
    [styleWidth |-> Px(st.width),
     styleHeight |-> Px(st.height),
     width |-> RFloor(RMul(Q(st.width), ratio)),
     height |-> RFloor(RMul(Q(st.height), ratio))]

\* one call on the 2D context: its name, its numbers, its string
Op(name, nums, str) == [op |-> name, a |-> nums, s |-> str]

\* the mapped points pts[i..] of _drawPolyline
RECURSIVE MapPoints(_, _, _, _, _)
MapPoints(seq, i, step, sp, opts) ==
    IF i < Len(seq.v)
    THEN LET rc == Rc(seq.v[i + 1], opts)
             xSym == XSym(seq, i, opts)
             x == RAdd(Q(opts.PIXEL_MARGIN),
                       RMul(step, RAdd(RSub(xSym, sp.min), Q(opts.PAD))))
             y == RAdd(Q(opts.PIXEL_MARGIN),
                       RMul(step, RAdd(Q(opts.PAD + rc.row), Half)))
         IN  <<[x |-> x, y |-> y]>> \o MapPoints(seq, i + 1, step, sp, opts)
    ELSE <<>>

Mid(a, b) == RDiv(RAdd(a, b), Q(2))

\* for (let i = 1; i < pts.length - 2; i++) quadraticCurveTo(pts[i], mid)
RECURSIVE CurveLoop(_, _)
CurveLoop(pts, i) ==
    IF i < Len(pts) - 2
    THEN <<Op("quadraticCurveTo",
              <<pts[i + 1].x, pts[i + 1].y,
                Mid(pts[i + 1].x, pts[i + 2].x), Mid(pts[i + 1].y, pts[i + 2].y)>>,
              "")>>
         \o CurveLoop(pts, i + 1)
    ELSE <<>>

\* the path with the loop started at i = 0
StrokePathFromFirstPair(pts, opts) ==
    LET n == Len(pts)
    IN  <<Op("save", <<>>, ""),
          Op("strokeStyle", <<>>, opts.lineColor),
          Op("lineWidth", <<Q(opts.lineWidth)>>, ""),
          Op("lineJoin", <<>>, "round"),
          Op("lineCap", <<>>, "round"),
          Op("beginPath", <<>>, ""),
          Op("moveTo", <<pts[1].x, pts[1].y>>, "")>>
        \o CurveLoop(pts, 0)
        \o <<Op("quadraticCurveTo",
                <<pts[n - 1].x, pts[n - 1].y, pts[n].x, pts[n].y>>, ""),
             Op("stroke", <<>>, ""),
             Op("restore", <<>>, "")>>

\* the path with the last point as the control point of the final segment
StrokePathLastAsControl(pts, opts) ==
    LET n == Len(pts)
    IN  <<Op("save", <<>>, ""),
          Op("strokeStyle", <<>>, opts.lineColor),
          Op("lineWidth", <<Q(opts.lineWidth)>>, ""),
          Op("lineJoin", <<>>, "round"),
          Op("lineCap", <<>>, "round"),
          Op("beginPath", <<>>, ""),
          Op("moveTo", <<pts[1].x, pts[1].y>>, "")>>
        \o CurveLoop(pts, 1)
        \o <<Op("quadraticCurveTo",
                <<pts[n].x, pts[n].y, pts[n].x, pts[n].y>>, ""),
             Op("stroke", <<>>, ""),
             Op("restore", <<>>, "")>>

\* the smoothed path through pts (pts.length >= 2)
StrokePath(pts, opts) ==
    LET n == Len(pts)
    IN  <<Op("save", <<>>, ""),
          Op("strokeStyle", <<>>, opts.lineColor),
          Op("lineWidth", <<Q(opts.lineWidth)>>, ""),
          Op("lineJoin", <<>>, "round"),
          Op("lineCap", <<>>, "round"),
          Op("beginPath", <<>>, ""),
          Op("moveTo", <<pts[1].x, pts[1].y>>, "")>>
        \o CurveLoop(pts, 1)
        \o <<Op("quadraticCurveTo",
                <<pts[n - 1].x, pts[n - 1].y, pts[n].x, pts[n].y>>, ""),
             Op("stroke", <<>>, ""),
             Op("restore", <<>>, "")>>

\* _drawPolyline with the early return moved above the background
DrawPolylineReturnFirst(seq, st, opts) ==
    LET step == Step(st.height, opts)
        sp == SpanX(seq, opts)
        background ==
            <<Op("clearRect", <<Q(0), Q(0), Q(st.width), Q(st.height)>>, ""),
              Op("fillStyle", <<>>, BackgroundColor),
              Op("fillRect", <<Q(0), Q(0), Q(st.width), Q(st.height)>>, "")>>
    IN  IF Falsy(seq) \/ Len(seq.v) < 2
        THEN <<>>
        ELSE background \o StrokePath(MapPoints(seq, 0, step, sp, opts), opts)

\* _drawPolyline(seq): the calls it makes on the context
DrawPolyline(seq, st, opts) ==
    LET step == Step(st.height, opts)
        sp == SpanX(seq, opts)
        background ==
            <<Op("clearRect", <<Q(0), Q(0), Q(st.width), Q(st.height)>>, ""),
              Op("fillStyle", <<>>, BackgroundColor),
              Op("fillRect", <<Q(0), Q(0), Q(st.width), Q(st.height)>>, "")>>
    IN  IF Falsy(seq) \/ Len(seq.v) < 2
        THEN background
        ELSE background \o StrokePath(MapPoints(seq, 0, step, sp, opts), opts)

-----------------------------------------------------------------------------
(* The inputs drawn. *)

\* symbols of the rendered sequences: below 1, in range, and above N*N for N = 2
Symbols == {0, 1, 7}

RECURSIVE SeqsUpTo(_, _)
SeqsUpTo(S, n) ==
    IF n = 0 THEN {<<>>}
    ELSE LET shorter == SeqsUpTo(S, n - 1)
         IN  shorter \cup {Append(s, x) : s \in {t \in shorter : Len(t) = n - 1}, x \in S}

SeqArgs(S, n) == {Undefined} \cup {Arr(s) : s \in SeqsUpTo(S, n)}

\* the sequences rendered in the call-sequence specification
CallSeqs == {Undefined, Arr(<<>>), Arr(<<1>>), Arr(<<1, 1>>), Arr(<<7, 1, 1>>)}

\* the configurations the geometry is checked on
GeomNs == {2, 4}
GeomPads == {0, 1, 2}
GeomShifts == {Q(-1), Q(0), Q(1), Q(4)}
GeomHeights == {[H_FIXED |-> 256, PIXEL_MARGIN |-> 24],
                [H_FIXED |-> 64, PIXEL_MARGIN |-> 0],
                [H_FIXED |-> 48, PIXEL_MARGIN |-> 24]}
GeomOptions ==
    {[N |-> n, PAD |-> p, shift |-> s,
      H_FIXED |-> h.H_FIXED, PIXEL_MARGIN |-> h.PIXEL_MARGIN] :
        n \in GeomNs, p \in GeomPads, s \in GeomShifts, h \in GeomHeights}

\* the partial configurations passed to the constructor and to setOptions
EmptyOptions == [f \in {} |-> 0]
ConstructorOptions ==
    {EmptyOptions, [PAD |-> 1, PIXEL_MARGIN |-> 0]}
OptionUpdates ==
    {EmptyOptions,
     [PAD |-> 0],
     [H_FIXED |-> 128],
     [N |-> 2, shift |-> Q(4)],
     [lineColor |-> "#ff0000", lineWidth |-> 3]}

\* the ratios the host reports: absent, and 1.5
DevicePixelRatios == {Q(0), <<3, 2>>}

-----------------------------------------------------------------------------
(* The public operations. *)

\* constructor(canvas, opts): the state after construction
Constructed(opts, ratio, seq) ==
    /\ options = ObjectAssign(Defaults, opts)
    /\ state = [width |-> InitialWidth, height |-> options.H_FIXED]
    /\ devicePixelRatio = ratio
    /\ dpr = SyncDPR(ratio)
    /\ canvas = [styleWidth |-> Px(0), styleHeight |-> Px(0), width |-> 0, height |-> 0]
    /\ ctxOps = <<>>
    /\ input = seq
    /\ call = [op |-> "constructor", seq |-> Undefined, opts |-> opts]
    /\ sized = [by |-> "constructor", seq |-> Undefined, options |-> options]

\* setOptions(opts)
SetOptions(opts) ==
    /\ options' = ObjectAssign(options, opts)
    /\ call' = [op |-> "setOptions", seq |-> Undefined, opts |-> opts]
    /\ UNCHANGED <<state, dpr, canvas, ctxOps, devicePixelRatio, input, sized>>

\* render(seq)
Render(seq) ==
    /\ state' = ChooseCanvasSize(seq, options)
    /\ dpr' = SyncDPR(devicePixelRatio)
    /\ canvas' = SetupCanvas(state', dpr')
    /\ ctxOps' = <<Op("setTransform", <<dpr', Q(0), Q(0), dpr', Q(0), Q(0)>>, "")>>
                 \o DrawPolyline(seq, state', options)
    /\ call' = [op |-> "render", seq |-> seq, opts |-> EmptyOptions]
    /\ sized' = [by |-> "render", seq |-> seq, options |-> options]
    /\ UNCHANGED <<options, devicePixelRatio, input>>

\* the host moves the canvas to a screen of another ratio
ScreenChange(ratio) ==
    /\ ratio # devicePixelRatio
    /\ devicePixelRatio' = ratio
    /\ UNCHANGED <<options, state, dpr, canvas, ctxOps, input, call, sized>>

-----------------------------------------------------------------------------
(* The call-sequence specification: any calls in any order. *)

Init ==
    \E opts \in ConstructorOptions, ratio \in DevicePixelRatios :
        Constructed(opts, ratio, Undefined)

Next ==
    \/ \E opts \in OptionUpdates : SetOptions(opts)
    \/ \E seq \in CallSeqs : Render(seq)
    \/ \E ratio \in DevicePixelRatios : ScreenChange(ratio)

Spec == Init /\ [][Next]_vars

(* The geometry specification: one configuration, one sequence, rendered. *)

GeomInit ==
    \E opts \in GeomOptions, seq \in SeqArgs(Symbols, MaxSeqLen) :
        Constructed(opts, Q(0), seq)

GeomNext == Render(input)

SpecGeom == GeomInit /\ [][GeomNext]_vars

-----------------------------------------------------------------------------
(* What the claims speak of, computed from their own words. *)

Rendered == call.op = "render"
SeqLen(seq) == IF seq.def THEN Len(seq.v) ELSE 0

\* the position (col_i + 0.5) + (i/4)*shift of the element at 1-based position i
ClaimedX(seq, i, opts) ==
    RAdd(RAdd(Q(Rc(seq.v[i], opts).col), Half), RMul(Rat(i, 4), opts.shift))

\* the least and the greatest position; {0.5, 0.5} without elements
ClaimedSpan(seq, opts) ==
    IF SeqLen(seq) = 0
    THEN [min |-> Half, max |-> Half]
    ELSE LET xs == {ClaimedX(seq, i, opts) : i \in 1..Len(seq.v)}
         IN  [min |-> CHOOSE x \in xs : \A y \in xs : RLe(x, y),
              max |-> CHOOSE x \in xs : \A y \in xs : RLe(y, x)]

ClaimedExtent(seq, opts) ==
    LET sp == ClaimedSpan(seq, opts) IN RSub(sp.max, sp.min)

ClaimedStep(opts) == Rat(opts.H_FIXED - 2 * opts.PIXEL_MARGIN, opts.N + 2 * opts.PAD)

\* 2*margin + step * max(epsilon, (span.max - span.min) + 2*PAD)
ClaimedW(seq, opts) ==
    LET spanX == RAdd(ClaimedExtent(seq, opts), Q(2 * opts.PAD))
        symSpanX == IF RLe(spanX, Epsilon) THEN Epsilon ELSE spanX
    IN  RAdd(Q(2 * opts.PIXEL_MARGIN), RMul(ClaimedStep(opts), symSpanX))

\* w is the smallest integer that is at least W
SmallestIntegerAtLeast(w, W) == RLe(W, Q(w)) /\ RLt(Q(w - 1), W)

IsDefaultGeometry(opts) ==
    /\ opts.N = 4 /\ opts.PAD = 2 /\ opts.shift = Q(1)
    /\ opts.PIXEL_MARGIN = 24 /\ opts.H_FIXED = 256

-----------------------------------------------------------------------------
(* C1: right after render(seq), this.state.height and the logical height   *)
(* of the canvas (style.height) are the H_FIXED of the configuration the   *)
(* render ran under, whatever the sequence.                                *)
C1_HeightIsConfigured ==
    Rendered =>
        /\ state.height = options.H_FIXED
        /\ canvas.styleHeight = Px(options.H_FIXED)

C1_Witness ==
    /\ Rendered
    /\ SeqLen(call.seq) = 3
    /\ options.H_FIXED = 128
    /\ state.height = 128

(* C3: the width render records is ceil(2*margin + step * max(epsilon,     *)
(* extent + 2*PAD)), the extent taken over the positions                   *)
(* (col_i + 0.5) + (i/4)*shift; under the default configuration the empty  *)
(* sequence and every one-element sequence give 152.                       *)
C3_WidthFormula ==
    Rendered =>
        /\ SmallestIntegerAtLeast(state.width, ClaimedW(call.seq, options))
        /\ (IsDefaultGeometry(options) /\ SeqLen(call.seq) <= 1) => state.width = 152

C3_Witness ==
    /\ Rendered
    /\ IsDefaultGeometry(options)
    /\ call.seq = Arr(<<7>>)
    /\ state.width = 152

(* C9, as stated: in every reachable state the recorded height is the      *)
(* H_FIXED now configured and the recorded width is the smallest integer   *)
(* width for the latest rendered sequence under the configuration now in   *)
(* force, also right after construction and right after setOptions.        *)
C9_Original ==
    /\ state.height = options.H_FIXED
    /\ SmallestIntegerAtLeast(state.width, ClaimedW(sized.seq, options))

(* C9, amended: the recorded height is the H_FIXED of the configuration in *)
(* force at the latest render, or at construction before any render; the   *)
(* recorded width is 256 before any render and afterwards the smallest     *)
(* integer width for the latest rendered sequence under the configuration  *)
(* in force at that render.                                                *)
C9_SizeOfLatestRender ==
    /\ state.height = sized.options.H_FIXED
    /\ sized.by = "constructor" => state.width = 256
    /\ sized.by = "render" =>
           SmallestIntegerAtLeast(state.width, ClaimedW(sized.seq, sized.options))

C9_Witness ==
    /\ call.op = "setOptions"
    /\ sized.by = "render"
    /\ SeqLen(sized.seq) = 2
    /\ options.H_FIXED = 128
    /\ state.height = 256
    /\ options.PAD # sized.options.PAD

(* C7: setOptions(partial) overlays exactly the fields of partial on the   *)
(* configuration and keeps every other field; it leaves this.state, the    *)
(* canvas and what was drawn as they are; render sizes by the              *)
(* configuration as last set and never changes it.                         *)
C7_SetOptionsOverlays ==
    [][/\ call'.op = "setOptions" =>
            /\ DOMAIN options' = DOMAIN options
            /\ \A f \in DOMAIN options' :
                   IF f \in DOMAIN call'.opts
                   THEN options'[f] = call'.opts[f]
                   ELSE options'[f] = options[f]
            /\ state' = state
            /\ canvas' = canvas
            /\ ctxOps' = ctxOps
       /\ call'.op = "render" =>
            /\ options' = options
            /\ state'.height = options.H_FIXED
            /\ SmallestIntegerAtLeast(state'.width, ClaimedW(call'.seq, options))
      ]_vars

C7_Witness ==
    /\ call.op = "setOptions"
    /\ call.opts = [H_FIXED |-> 128]
    /\ options.H_FIXED = 128
    /\ options.PAD = 0
    /\ options.lineWidth = 3
    /\ sized.by = "render"
    /\ state.height = 256

-----------------------------------------------------------------------------
(* The path of the latest render, read back from the calls on the context. *)

\* the points render mapped the latest sequence to, p_0 first
Points ==
    MapPoints(call.seq, 0, Step(state.height, options), SpanX(call.seq, options), options)

IsPathOp(o) == o.op \in {"beginPath", "moveTo", "quadraticCurveTo", "stroke"}
PathOps == SelectSeq(ctxOps, IsPathOp)
IsQuad(o) == o.op = "quadraticCurveTo"
Quads == SelectSeq(ctxOps, IsQuad)

MoveTo(p) == Op("moveTo", <<p.x, p.y>>, "")
\* a quadratic segment with control point c and endpoint e
Quad(c, e) == Op("quadraticCurveTo", <<c.x, c.y, e.x, e.y>>, "")
MidPoint(p, q) == [x |-> Rat(p.x[1] * q.x[2] + q.x[1] * p.x[2], 2 * p.x[2] * q.x[2]),
                   y |-> Rat(p.y[1] * q.y[2] + q.y[1] * p.y[2], 2 * p.y[2] * q.y[2])]

\* every point passed to moveTo or quadraticCurveTo
DrawnPoints ==
    {[x |-> ctxOps[k].a[1], y |-> ctxOps[k].a[2]] :
        k \in {j \in 1..Len(ctxOps) : ctxOps[j].op \in {"moveTo", "quadraticCurveTo"}}}
    \cup {[x |-> ctxOps[k].a[3], y |-> ctxOps[k].a[4]] :
        k \in {j \in 1..Len(ctxOps) : ctxOps[j].op = "quadraticCurveTo"}}

(* C4, as stated: for n >= 2 points the quadratic segments are, for         *)
(* i = 0..n-3, control p_i and endpoint the midpoint of p_i and p_{i+1},   *)
(* then control p_{n-2} and endpoint p_{n-1}: n-1 segments.                *)
C4_Original ==
    (Rendered /\ SeqLen(call.seq) >= 2) =>
        LET n == SeqLen(call.seq)
            p == Points
        IN  /\ Len(Quads) = n - 1
            /\ \A i \in 0..(n - 3) :
                   Quads[i + 1] = Quad(p[i + 1], MidPoint(p[i + 1], p[i + 2]))
            /\ Quads[n - 1] = Quad(p[n - 1], p[n])

(* C4, amended: for n >= 2 points the path is begin-path, move-to p_0,     *)
(* then for i = 1..n-3 in increasing i one quadratic segment with control  *)
(* p_i and endpoint the midpoint of p_i and p_{i+1}, then one with control *)
(* p_{n-2} and endpoint p_{n-1}, then stroke: max(1, n-2) segments, from   *)
(* the first mapped point to the last.                                     *)
C4_PathFromSecondPoint ==
    (Rendered /\ SeqLen(call.seq) >= 2) =>
        LET n == SeqLen(call.seq)
            p == Points
            inner == [i \in 1..(n - 3) |-> Quad(p[i + 1], MidPoint(p[i + 1], p[i + 2]))]
        IN  /\ PathOps = <<Op("beginPath", <<>>, ""), MoveTo(p[1])>>
                         \o inner
                         \o <<Quad(p[n - 1], p[n]), Op("stroke", <<>>, "")>>
            /\ Len(Quads) = IF n = 2 THEN 1 ELSE n - 2

C4_Witness ==
    /\ Rendered
    /\ call.seq = Arr(<<1, 7, 0, 7>>)
    /\ IsDefaultGeometry(options)
    /\ Len(Quads) = 2
    /\ Quads[1] = Quad(Points[2], MidPoint(Points[2], Points[3]))
    /\ Points[1] # Points[2]

(* C5, as stated: a 2-element sequence gives one quadratic segment whose   *)
(* control point and endpoint are both the second mapped point.            *)
C5_Original ==
    (Rendered /\ SeqLen(call.seq) = 2) =>
        /\ Len(Quads) = 1
        /\ Quads[1] = Quad(Points[2], Points[2])

(* C5, amended: a 2-element sequence gives one quadratic segment whose     *)
(* control point is the first mapped point, where the path starts, and     *)
(* whose endpoint is the second mapped point.                              *)
C5_TwoPointSegment ==
    (Rendered /\ SeqLen(call.seq) = 2) =>
        /\ Len(Quads) = 1
        /\ Quads[1] = Quad(Points[1], Points[2])
        /\ PathOps[2] = MoveTo(Points[1])
        /\ ctxOps[Len(ctxOps)].op = "restore"

C5_Witness ==
    /\ Rendered
    /\ call.seq = Arr(<<1, 1>>)
    /\ options.N = 4
    /\ Points[1] # Points[2]
    /\ Len(Quads) = 1

(* C6: for an undefined, empty or one-element sequence render sizes the    *)
(* canvas, clears and fills the background over (0, 0, width, height) and  *)
(* makes no path call; for an undefined or empty sequence the span is      *)
(* {min: 0.5, max: 0.5}.                                                   *)
C6_ShortSequenceNoPath ==
    (Rendered /\ SeqLen(call.seq) <= 1) =>
        LET bounds == <<Q(0), Q(0), Q(state.width), Q(state.height)>>
        IN  /\ canvas.styleWidth = Px(state.width)
            /\ canvas.styleHeight = Px(state.height)
            /\ state.height = options.H_FIXED
            /\ SmallestIntegerAtLeast(state.width, ClaimedW(Arr(<<>>), options))
            /\ PathOps = <<>>
            /\ \E k \in 1..Len(ctxOps) :
                   /\ ctxOps[k] = Op("clearRect", bounds, "")
                   /\ ctxOps[k + 1] = Op("fillStyle", <<>>, BackgroundColor)
                   /\ ctxOps[k + 2] = Op("fillRect", bounds, "")
                   /\ Len(ctxOps) = k + 2
            /\ SeqLen(call.seq) = 0 => SpanX(call.seq, options) = [min |-> Half, max |-> Half]

C6_Witness ==
    /\ Rendered
    /\ call.seq = Arr(<<7>>)
    /\ Len(ctxOps) = 4
    /\ options.PAD = 0

-----------------------------------------------------------------------------
(* The grid decoding. *)

\* what _rc made of the symbols of the latest rendered sequence, and of a
\* range of symbols around 1..N*N
DecodedSymbols ==
    {call.seq.v[i] : i \in 1..SeqLen(call.seq)} \cup ((-9)..(options.N * options.N + 9))

\* r = floor(z / N)
IsFloorOfQuotient(r, z, N) == r * N <= z /\ z < (r + 1) * N

(* C8, as stated: for every integer n, also below 1 and above N*N,         *)
(* row = floor(z/N) and col = z mod N with z = n-1, the column in 0..N-1.  *)
C8_Original ==
    Rendered =>
        \A n \in DecodedSymbols :
            LET rc == Rc(n, options)
                z == n - 1
            IN  /\ IsFloorOfQuotient(rc.row, z, options.N)
                /\ rc.col = z % options.N
                /\ rc.col \in 0..(options.N - 1)

(* C8, amended: for every integer n decoding does not fail and             *)
(* row = floor(z/N) with z = n-1; for n >= 1, also above N*N, col is       *)
(* z mod N, in 0..N-1; for n <= 0, col is -((-z) mod N), the remainder     *)
(* with the sign of z, in -(N-1)..0; for n in 1..N*N row and col are both  *)
(* in 0..N-1.                                                              *)
C8_DecodeKeepsSign ==
    Rendered =>
        \A n \in DecodedSymbols :
            LET rc == Rc(n, options)
                z == n - 1
                N == options.N
            IN  /\ IsFloorOfQuotient(rc.row, z, N)
                /\ n >= 1 => rc.col = z % N /\ rc.col \in 0..(N - 1)
                /\ n <= 0 => rc.col = -((-z) % N) /\ rc.col \in (-(N - 1))..0
                /\ n \in 1..(N * N) =>
                       /\ rc.row \in 0..(N - 1)
                       /\ z = rc.row * N + rc.col

C8_Witness ==
    /\ Rendered
    /\ call.seq = Arr(<<0, 7>>)
    /\ options.N = 2
    /\ Rc(0, options) = [row |-> -1, col |-> -1]
    /\ Rc(7, options) = [row |-> 3, col |-> 0]
    /\ Len(Quads) = 1

-----------------------------------------------------------------------------
(* The geometry. *)

\* the width render would record for the latest sequence with PAD set to pad
WidthWithPad(pad) == ChooseCanvasSize(call.seq, [options EXCEPT !.PAD = pad]).width

SymbolsInRange(seq, opts) ==
    \A i \in 1..SeqLen(seq) : seq.v[i] \in 1..(opts.N * opts.N)

=============================================================================
